---- MODULE Spec2Model ----
(***************************************************************************)
(* The Tauri bridge of celflow: src/frontend/desktop/src-tauri/src/lib.rs  *)
(* and its three-command twin src/selflow-desktop/src-tauri/src/lib.rs.    *)
(*                                                                         *)
(* The module holds four groups of state, each exercised by its own        *)
(* specification:                                                          *)
(*   SpecEscape  the inline script send_chat_message builds, and how the   *)
(*               Python interpreter reads the embedded message literal;    *)
(*   SpecDetect  detect_python_path over every assignment of probe         *)
(*               outcomes;                                                 *)
(*   SpecResult  what each command returns for each outcome of its backend *)
(*               process (runs of one command, one after the other);       *)
(*   Spec        run() followed by concurrent command calls that share the *)
(*               python_path mutex; LiveSpec adds fairness.                *)
(***************************************************************************)
EXTENDS Integers, Sequences, FiniteSets, TLC

VARIABLES
    \* ---- send_chat_message's script construction
    message,        \* the message: String argument, a sequence of characters
    script,         \* the text of the inline script from the opening quote on
    parsed,         \* what the interpreter reads as the first string literal
    \* ---- start-up
    variant,        \* which of the two lib.rs files is running
    probeEnv,       \* the machine: outcome of `<candidate> --version`
    started,        \* run() has built AppState
    python_path,    \* AppState.python_path (the String inside the Mutex)
    probes,         \* how many times each candidate was probed
    \* ---- one command, run after run
    cmdUnderTest,   \* the command whose runs are recorded
    runs,           \* sequence of [outcome, result] of that command
    \* ---- concurrent command calls
    lock,           \* holder of the python_path Mutex, or NoCall
    pc,             \* per call: "idle", "called", "locked", "running", "done"
    call,           \* per call: the command and its arguments, while pending
    proc,           \* per call: the backend process in flight, or NoProc
    returned,       \* per call: the return path its last command took
    acquired,       \* per call: times the Mutex was locked in this call
    launched        \* per call: backend processes launched in this call

escapeVars == <<message, script, parsed>>
startVars  == <<variant, probeEnv, started, python_path, probes>>
resultVars == <<cmdUnderTest, runs>>
callVars   == <<lock, pc, call, proc, returned, acquired, launched>>
vars       == <<escapeVars, startVars, resultVars, callVars>>

None == "none"

(***************************************************************************)
(* Bounds of the model.                                                    *)
(***************************************************************************)
MaxMsgLen == 3      \* longest message explored by SpecEscape
MaxRuns   == 2      \* runs of one command recorded by SpecResult
MaxCalls  == 2      \* command calls that can be pending at once in Spec

(***************************************************************************)
(* Characters.  A string is a sequence of one-character tokens; the three  *)
(* characters with a meaning inside a Python string literal are named.     *)
(***************************************************************************)
QUOTE     == "QUOTE"        \* "
BACKSLASH == "BACKSLASH"    \* \
NEWLINE   == "NEWLINE"      \* line feed
Alphabet  == {QUOTE, BACKSLASH, NEWLINE, "n", "h"}

RECURSIVE SeqsUpTo(_, _)
SeqsUpTo(S, n) ==
    IF n = 0 THEN {<<>>}
    ELSE LET shorter == SeqsUpTo(S, n - 1)
         IN  shorter \cup {Append(s, x) : s \in {t \in shorter : Len(t) = n - 1}, x \in S}

(***************************************************************************)
(* message.replace("\"", "\\\""): every double quote becomes backslash,    *)
(* double quote; every other character is copied.                          *)
(***************************************************************************)
RECURSIVE replace_quote(_)
replace_quote(s) ==
    IF s = <<>> THEN <<>>
    ELSE (IF Head(s) = QUOTE THEN <<BACKSLASH, QUOTE>> ELSE <<Head(s)>>)
         \o replace_quote(Tail(s))

(***************************************************************************)
(* The format! template of send_chat_message from the first opening quote  *)
(* of chat_with_agents("{}", "{}") on: the escaped message, the closing    *)
(* quote, the separator, the quoted session id, the closing parenthesis    *)
(* and the end of the line.                                                *)
(***************************************************************************)
ScriptTail(session_id) == <<QUOTE, ",", " ", QUOTE>> \o session_id \o <<QUOTE, ")", NEWLINE>>

send_message_script(msg, session_id) == replace_quote(msg) \o ScriptTail(session_id)

(***************************************************************************)
(* The consuming layer: Python reading a "..." literal whose opening quote *)
(* has just been consumed.  An unescaped quote ends the literal; a raw     *)
(* line feed or the end of the text is a SyntaxError; backslash followed   *)
(* by quote, backslash, n or a line feed is an escape sequence; backslash  *)
(* followed by any other character stands for both characters.             *)
(***************************************************************************)
RECURSIVE PyStringLiteral(_, _, _)
PyStringLiteral(text, i, acc) ==
    IF i > Len(text) THEN [ok |-> FALSE, text |-> acc, end |-> i]
    ELSE IF text[i] = QUOTE THEN [ok |-> TRUE, text |-> acc, end |-> i]
    ELSE IF text[i] = NEWLINE THEN [ok |-> FALSE, text |-> acc, end |-> i]
    ELSE IF text[i] = BACKSLASH THEN
        IF i = Len(text) THEN [ok |-> FALSE, text |-> acc, end |-> i]
        ELSE LET c == text[i + 1]
             IN  PyStringLiteral(text, i + 2,
                     IF c = QUOTE THEN Append(acc, QUOTE)
                     ELSE IF c = BACKSLASH THEN Append(acc, BACKSLASH)
                     ELSE IF c = "n" THEN Append(acc, NEWLINE)
                     ELSE IF c = NEWLINE THEN acc
                     ELSE acc \o <<BACKSLASH, c>>)
    ELSE PyStringLiteral(text, i + 1, Append(acc, text[i]))

(***************************************************************************)
(* Start-up: detect_python_path and run().                                 *)
(***************************************************************************)
Desktop  == "frontend/desktop"
Selflow  == "selflow-desktop"
Variants == {Desktop, Selflow}

candidates(v) ==
    IF v = Desktop
    THEN <<"python3", "python", "./celflow_env/bin/python", "./celflow_env/Scripts/python.exe">>
    ELSE <<"python3", "python", "./selflow_env/bin/python", "./selflow_env/Scripts/python.exe">>

\* What `Command::new(candidate).arg("--version").output()` can give.
ProbeOutcomes == {"spawn_error", "exit_nonzero", "exit_zero"}

ProbeEnvs(v) == [1..Len(candidates(v)) -> ProbeOutcomes]

NoProbeEnv(v) == [i \in 1..Len(candidates(v)) |-> None]

NoProbes(v) == [i \in 1..Len(candidates(v)) |-> 0]

\* A probe that merely spawned counts as a success (the exit status is not read).
probe_spawned(outcome) == outcome # "spawn_error"

\* `if let Ok(output) = ... { if output.status.success() {`
probe_succeeded(outcome) == outcome = "exit_zero"

\* The loop gives up and returns the last candidate it tried.
fallback_last(cands) == cands[Len(cands)]

\* `"python3".to_string()` after the loop
fallback_path(cands) == "python3"

\* `for candidate in candidates { ... return candidate.to_string(); }`, from
\* candidate i on, with the probes counted so far.
RECURSIVE detect_loop(_, _, _, _)
detect_loop(cands, env, i, count) ==
    IF i > Len(cands) THEN [path |-> fallback_path(cands), probes |-> count]
    ELSE LET probed == [count EXCEPT ![i] = @ + 1]
         IN  IF probe_succeeded(env[i])
             THEN [path |-> cands[i], probes |-> probed]
             ELSE detect_loop(cands, env, i + 1, probed)

detect_python_path(cands, env) ==
    detect_loop(cands, env, 1, [i \in 1..Len(cands) |-> 0])

(***************************************************************************)
(* The commands and the shapes they decode.                                *)
(***************************************************************************)
GetLatestAnalysis == "get_latest_analysis"
GetSystemMetrics  == "get_system_metrics"
TriggerAnalysis   == "trigger_analysis"
StartChatSession  == "start_chat_session"
SendChatMessage   == "send_chat_message"
GetChatHistory    == "get_chat_history"

\* tauri::generate_handler![...] of each lib.rs
Commands(v) ==
    IF v = Desktop
    THEN {GetLatestAnalysis, GetSystemMetrics, TriggerAnalysis,
          StartChatSession, SendChatMessage, GetChatHistory}
    ELSE {GetLatestAnalysis, GetSystemMetrics, TriggerAnalysis}

BackendCommands(v) == Commands(v) \ {GetSystemMetrics}

JsonCommands == {GetLatestAnalysis, SendChatMessage, GetChatHistory}

\* Fields of the derive(Deserialize) struct each JSON command decodes into:
\* a field of type Option<_> may be absent, every other field must be present.
RequiredFields(cmd) ==
    CASE cmd = GetLatestAnalysis ->
            {"timestamp", "analysis_id", "data_summary", "clustering_results",
             "consensus", "recommendations"}
      [] cmd = SendChatMessage -> {"session_id", "response"}
      [] cmd = GetChatHistory ->
            {"session_id", "start_time", "duration", "message_count",
             "active_agents", "messages"}
      [] OTHER -> {}

OptionalFields(cmd) ==
    CASE cmd = GetLatestAnalysis -> {"analysis_duration_seconds", "error"}
      [] cmd = SendChatMessage -> {"error"}
      [] OTHER -> {}

KnownFields(cmd) == RequiredFields(cmd) \cup OptionalFields(cmd)

\* Declaration order of the fields, as a serializer would write them.
FieldOrder(cmd) ==
    CASE cmd = GetLatestAnalysis ->
            <<"timestamp", "analysis_id", "data_summary", "clustering_results",
              "consensus", "recommendations", "analysis_duration_seconds", "error">>
      [] cmd = SendChatMessage -> <<"session_id", "response", "error">>
      [] cmd = GetChatHistory ->
            <<"session_id", "start_time", "duration", "message_count",
              "active_agents", "messages">>
      [] OTHER -> <<>>

(***************************************************************************)
(* JSON text is a sequence of tokens: the braces, white space (NEWLINE), a *)
(* token per member `"name": value` (named by the member, the value being  *)
(* of the member's type), "extra" for a member the struct does not have    *)
(* and "junk" for text that is no JSON.                                    *)
(***************************************************************************)
LBRACE == "{"
RBRACE == "}"
JUNK   == "junk"
EXTRA  == "extra"

IsMember(tok) == tok \notin {LBRACE, RBRACE, NEWLINE, JUNK}

RECURSIVE SkipWs(_, _)
SkipWs(s, i) == IF i <= Len(s) /\ s[i] = NEWLINE THEN SkipWs(s, i + 1) ELSE i

Decoded(fields, defaulted) ==
    [kind |-> "struct", fields |-> fields, defaulted |-> defaulted, text |-> <<>>]

Text(t) == [kind |-> "string", fields |-> {}, defaulted |-> {}, text |-> t]

NoValue == [kind |-> None, fields |-> {}, defaulted |-> {}, text |-> <<>>]

ParseOk(v)    == [ok |-> TRUE, error |-> None, value |-> v]

ParseErr(why) == [ok |-> FALSE, error |-> why, value |-> NoValue]

\* The struct visitor's loop over the members of the object opened before
\* position i: a member seen twice is an error where it is seen, the text
\* ending inside the object is an error; at the closing brace every required
\* field must have been seen and an absent Option field is None; then only
\* white space may follow.
RECURSIVE VisitMap(_, _, _, _)
VisitMap(cmd, s, i, seen) ==
    LET j == SkipWs(s, i)
    IN  IF j > Len(s) THEN ParseErr("EOF while parsing an object")
        ELSE IF s[j] = RBRACE THEN
            IF ~(RequiredFields(cmd) \subseteq seen) THEN ParseErr("missing field")
            ELSE IF SkipWs(s, j + 1) <= Len(s) THEN ParseErr("trailing characters")
            ELSE ParseOk(Decoded(seen, OptionalFields(cmd) \ seen))
        ELSE IF ~IsMember(s[j]) THEN ParseErr("key must be a string")
        ELSE IF s[j] \in seen THEN ParseErr("duplicate field")
        ELSE VisitMap(cmd, s, j + 1,
                      IF s[j] \in KnownFields(cmd) THEN seen \cup {s[j]} ELSE seen)

\* serde_json::from_str::<T>(&json_str), T the struct of cmd
from_str(cmd, s) ==
    LET j == SkipWs(s, 1)
    IN  IF j > Len(s) THEN ParseErr("EOF while parsing a value")
        ELSE IF s[j] # LBRACE THEN ParseErr("expected value")
        ELSE VisitMap(cmd, s, j + 1, {})

(***************************************************************************)
(* str::trim of the session id line: white space is removed at both ends.  *)
(***************************************************************************)
IsSpace(ch) == ch \in {" ", NEWLINE}

RECURSIVE trim_start(_)
trim_start(s) == IF s # <<>> /\ IsSpace(Head(s)) THEN trim_start(Tail(s)) ELSE s

RECURSIVE trim_end(_)
trim_end(s) ==
    IF s # <<>> /\ IsSpace(s[Len(s)]) THEN trim_end(SubSeq(s, 1, Len(s) - 1)) ELSE s

trim(s) == trim_end(trim_start(s))

(***************************************************************************)
(* What one `Command::new(..)...output()` can give: the process could not  *)
(* be spawned (an io::Error), or it ran and left an exit status, its       *)
(* stdout and its stderr.                                                  *)
(***************************************************************************)
MaxOutLen == 3      \* longest stdout of start_chat_session's script

ENOENT == "No such file or directory (os error 2)"
EACCES == "Permission denied (os error 13)"

\* Display of the io::Error of a failed spawn
SpawnErrors == {ENOENT, EACCES}

\* stderr is whatever the backend writes: its own message, or the message of
\* an OS error it met itself
StderrTexts == {"boom", ENOENT}

SpawnFailure(e) ==
    [spawned |-> FALSE, error |-> e, status |-> 0 - 1, stdout |-> <<>>, stderr |-> ""]

Exited(status, out, err) ==
    [spawned |-> TRUE, error |-> None, status |-> status, stdout |-> out, stderr |-> err]

FullObject(cmd) == <<LBRACE>> \o FieldOrder(cmd) \o <<RBRACE, NEWLINE>>

ObjectWithout(cmd, f) ==
    <<LBRACE>> \o SelectSeq(FieldOrder(cmd), LAMBDA g : g # f) \o <<RBRACE, NEWLINE>>

Prefixes(s) == {SubSeq(s, 1, k) : k \in 0..Len(s)}

\* A stdout the command accepts: the whole object and the line feed print adds,
\* or the session id "s" on a line.
GoodStdout(cmd) ==
    CASE cmd \in JsonCommands -> FullObject(cmd)
      [] cmd = StartChatSession -> <<"s", NEWLINE>>
      [] OTHER -> <<>>

Stdouts(cmd) ==
    CASE cmd \in JsonCommands ->
            Prefixes(FullObject(cmd))
            \cup {ObjectWithout(cmd, f) : f \in KnownFields(cmd)}
            \cup { <<LBRACE, RBRACE, NEWLINE>>,
                   <<NEWLINE>>,
                   <<JUNK>>,
                   <<NEWLINE>> \o FullObject(cmd),
                   FullObject(cmd) \o <<JUNK>>,
                   <<LBRACE, EXTRA>> \o FieldOrder(cmd) \o <<RBRACE>>,
                   <<LBRACE>> \o FieldOrder(cmd) \o <<FieldOrder(cmd)[1], RBRACE>>,
                   <<LBRACE>> \o SelectSeq(FieldOrder(cmd),
                                           LAMBDA g : g \in RequiredFields(cmd))
                              \o <<RBRACE, NEWLINE>> }
      [] cmd = StartChatSession -> SeqsUpTo({"s", NEWLINE}, MaxOutLen)
      [] OTHER -> {<<>>, <<JUNK>>}

\* get_system_metrics launches nothing
NoLaunch == Exited(0, <<>>, "")

Exits(cmd) ==
    {Exited(0, out, "") : out \in Stdouts(cmd)}
    \cup {Exited(1, out, err) : out \in {<<>>, GoodStdout(cmd)}, err \in StderrTexts}

Outcomes(cmd) == {SpawnFailure(e) : e \in SpawnErrors} \cup Exits(cmd)

(***************************************************************************)
(* The commands, from the outcome of the launch to the Result returned.    *)
(* An Err is the String format!("<prefix>{}", text): two such strings with *)
(* the same prefix are equal exactly when the texts are, and none of the   *)
(* prefixes used by one command is a prefix of another, so the pair        *)
(* (prefix, text) stands for the string.                                   *)
(***************************************************************************)
Ok(v) == [ok |-> TRUE, prefix |-> None, text |-> None, value |-> v]

Err(prefix, text) == [ok |-> FALSE, prefix |-> prefix, text |-> text, value |-> NoValue]

\* The exit status is not looked at.
status_ignored(o) == TRUE

\* output.status.success()
status_success(o) == o.status = 0

\* The body shared by the commands: the spawn error, then the exit status,
\* then what the command makes of stdout.
Respond(o, spawnPrefix, exitPrefix, decoded) ==
    IF ~o.spawned THEN Err(spawnPrefix, o.error)
    ELSE IF ~status_success(o) THEN Err(exitPrefix, o.stderr)
    ELSE decoded

DecodeJson(cmd, parsePrefix, stdout) ==
    LET r == from_str(cmd, stdout)
    IN  IF r.ok THEN Ok(r.value) ELSE Err(parsePrefix, r.error)

get_latest_analysis(o) ==
    Respond(o, "Failed to execute Python script: ", "Python script failed: ",
            DecodeJson(GetLatestAnalysis, "Failed to parse JSON: ", o.stdout))

trigger_analysis(o) ==
    Respond(o, "Failed to execute Python script: ", "Analysis failed: ",
            Ok(Text(<<"Analysis triggered successfully">>)))

start_chat_session(o) ==
    Respond(o, "Failed to start chat session: ", "Failed to start chat session: ",
            Ok(Text(trim(o.stdout))))

send_chat_message(o) ==
    Respond(o, "Failed to send message: ", "Failed to send message: ",
            DecodeJson(SendChatMessage, "Failed to parse response: ", o.stdout))

get_chat_history(o) ==
    Respond(o, "Failed to get chat history: ", "Failed to get chat history: ",
            DecodeJson(GetChatHistory, "Failed to parse chat history: ", o.stdout))

SystemMetricsFields ==
    {"events_today", "active_agents", "clustering_status", "memory_usage",
     "cpu_usage", "last_analysis"}

get_system_metrics == Ok(Decoded(SystemMetricsFields, {}))

CommandResult(cmd, o) ==
    CASE cmd = GetLatestAnalysis -> get_latest_analysis(o)
      [] cmd = TriggerAnalysis   -> trigger_analysis(o)
      [] cmd = StartChatSession  -> start_chat_session(o)
      [] cmd = SendChatMessage   -> send_chat_message(o)
      [] cmd = GetChatHistory    -> get_chat_history(o)

\* The path a command took to its return, from the outcome o of its launch and
\* the Result r it returned.
ReturnPath(o, r) ==
    IF r.ok THEN "success"
    ELSE IF ~o.spawned THEN "spawn failure"
    ELSE IF o.status # 0 THEN "non-zero exit"
    ELSE "decode failure"

(***************************************************************************)
(* Concurrent command calls.  Every #[tauri::command] is an async fn, so   *)
(* calls run side by side; each call slot is one caller.                   *)
(***************************************************************************)
Calls  == 1..MaxCalls
NoCall == 0

SessionIds     == {<<"s", "1">>, <<"s", "2">>}
SampleMessages == {<<"h", QUOTE>>}

NoArgs(cmd) == [cmd |-> cmd, message |-> <<>>, session_id |-> <<>>]

NotCalled == NoArgs(None)

\* The invocations a caller can make of each command
Invocations(cmd) ==
    CASE cmd = SendChatMessage ->
            {[cmd |-> cmd, message |-> m, session_id |-> sid] :
                m \in SampleMessages, sid \in SessionIds}
      [] cmd = GetChatHistory ->
            {[cmd |-> cmd, message |-> <<>>, session_id |-> sid] : sid \in SessionIds}
      [] OTHER -> {NoArgs(cmd)}

NoProc == [program |-> None, args |-> <<>>, embedded |-> <<>>]

\* The interpreter is always "python3", whatever AppState holds.
program_hardcoded(path) == "python3"

\* Command::new(&*python_path)
program_of(path) == path

\* .arg(..).arg(..) of each command; for the inline scripts, the text that
\* format! puts after the first opening quote
backend_process(path, inv) ==
    CASE inv.cmd = GetLatestAnalysis ->
            [program |-> program_of(path), embedded |-> <<>>,
             args |-> <<"app/analytics/advanced_clustering_engine.py", "--export-json">>]
      [] inv.cmd = TriggerAnalysis ->
            [program |-> program_of(path), embedded |-> <<>>,
             args |-> <<"app/analytics/advanced_clustering_engine.py", "--force-analysis">>]
      [] inv.cmd = StartChatSession ->
            [program |-> program_of(path), embedded |-> <<>>,
             args |-> <<"-c", "start_session">>]
      [] inv.cmd = SendChatMessage ->
            [program |-> program_of(path),
             embedded |-> send_message_script(inv.message, inv.session_id),
             args |-> <<"-c", "send_message">>]
      [] inv.cmd = GetChatHistory ->
            [program |-> program_of(path),
             embedded |-> inv.session_id \o <<QUOTE, ")", NEWLINE>>,
             args |-> <<"-c", "get_history">>]

\* The guard outlives an Err return: the Mutex stays locked by the call.
guard_kept_on_err(c, r) == IF r.ok THEN NoCall ELSE c

\* The MutexGuard `python_path` is dropped when the command returns r.
guard_dropped(c, r) == NoCall

\* Command cmd returns from call c after a launch with outcome o: the Result r
\* goes to the caller, the guard goes out of scope.
Return(c, cmd, o) ==
    LET r == CommandResult(cmd, o)
    IN  [path |-> ReturnPath(o, r), lock |-> guard_dropped(c, r)]

\* The returns of each command over all outcomes of its launch, by call
SpawnFailReturns ==
    [c \in Calls, cmd \in BackendCommands(Desktop) |->
        {Return(c, cmd, SpawnFailure(e)) : e \in SpawnErrors}]

ExitReturns ==
    [c \in Calls, cmd \in BackendCommands(Desktop) |->
        {Return(c, cmd, o) : o \in Exits(cmd)}]

\* The caller invokes a backend command.
Invoke(c) ==
    /\ started
    /\ pc[c] \in {"idle", "done"}
    /\ \E cmd \in BackendCommands(variant) : \E inv \in Invocations(cmd) :
          call' = [call EXCEPT ![c] = inv]
    /\ pc' = [pc EXCEPT ![c] = "called"]
    /\ returned' = [returned EXCEPT ![c] = None]
    /\ acquired' = [acquired EXCEPT ![c] = 0]
    /\ launched' = [launched EXCEPT ![c] = 0]
    /\ UNCHANGED <<lock, proc, escapeVars, startVars, resultVars>>

\* get_system_metrics: called and returned, no state read.
Metrics(c) ==
    /\ started
    /\ pc[c] \in {"idle", "done"}
    /\ call' = [call EXCEPT ![c] = NotCalled]
    /\ pc' = [pc EXCEPT ![c] = "done"]
    /\ returned' = [returned EXCEPT ![c] = ReturnPath(NoLaunch, get_system_metrics)]
    /\ acquired' = [acquired EXCEPT ![c] = 0]
    /\ launched' = [launched EXCEPT ![c] = 0]
    /\ UNCHANGED <<lock, proc, escapeVars, startVars, resultVars>>

\* state.python_path.lock().unwrap(): blocks while another call holds the guard.
Lock(c) ==
    /\ pc[c] = "called"
    /\ lock = NoCall
    /\ lock' = c
    /\ pc' = [pc EXCEPT ![c] = "locked"]
    /\ acquired' = [acquired EXCEPT ![c] = @ + 1]
    /\ UNCHANGED <<call, proc, returned, launched, escapeVars, startVars, resultVars>>

\* .output() cannot start the process: map_err and `?` return the Err.
SpawnFails(c) ==
    /\ pc[c] = "locked"
    /\ \E ret \in SpawnFailReturns[c, call[c].cmd] :
          /\ returned' = [returned EXCEPT ![c] = ret.path]
          /\ lock' = ret.lock
    /\ call' = [call EXCEPT ![c] = NotCalled]
    /\ pc' = [pc EXCEPT ![c] = "done"]
    /\ launched' = [launched EXCEPT ![c] = @ + 1]
    /\ UNCHANGED <<proc, acquired, escapeVars, startVars, resultVars>>

\* .output() starts the backend and waits for it.
SpawnOk(c) ==
    /\ pc[c] = "locked"
    /\ proc' = [proc EXCEPT ![c] = backend_process(python_path, call[c])]
    /\ pc' = [pc EXCEPT ![c] = "running"]
    /\ launched' = [launched EXCEPT ![c] = @ + 1]
    /\ UNCHANGED <<lock, call, returned, acquired, escapeVars, startVars, resultVars>>

\* The backend exits; the command turns its output into the Result and returns.
Exit(c) ==
    /\ pc[c] = "running"
    /\ \E ret \in ExitReturns[c, call[c].cmd] :
          /\ returned' = [returned EXCEPT ![c] = ret.path]
          /\ lock' = ret.lock
    /\ call' = [call EXCEPT ![c] = NotCalled]
    /\ proc' = [proc EXCEPT ![c] = NoProc]
    /\ pc' = [pc EXCEPT ![c] = "done"]
    /\ UNCHANGED <<acquired, launched, escapeVars, startVars, resultVars>>

\* What detect_python_path can return, over all machines
Detections ==
    [v \in Variants |-> {detect_python_path(candidates(v), env) : env \in ProbeEnvs(v)}]

\* run(): detect the interpreter on some machine, then build AppState around
\* the path found.
Run ==
    /\ ~started
    /\ \E found \in Detections[variant] :
          /\ python_path' = found.path
          /\ probes' = found.probes
    /\ started' = TRUE
    /\ UNCHANGED <<variant, probeEnv, escapeVars, resultVars, callVars>>

(***************************************************************************)
(* Initial values of each group, and of a group a specification leaves     *)
(* alone.                                                                  *)
(***************************************************************************)
NotParsed == [ok |-> FALSE, text |-> <<>>, end |-> 0]

EscapeIdle ==
    /\ message = <<>>
    /\ script = <<>>
    /\ parsed = NotParsed

StartIdle(v) ==
    /\ variant = v
    /\ probeEnv = NoProbeEnv(v)
    /\ started = FALSE
    /\ python_path = None
    /\ probes = NoProbes(v)

ResultIdle ==
    /\ cmdUnderTest = None
    /\ runs = <<>>

CallsIdle ==
    /\ lock = NoCall
    /\ pc = [c \in Calls |-> "idle"]
    /\ call = [c \in Calls |-> NotCalled]
    /\ proc = [c \in Calls |-> NoProc]
    /\ returned = [c \in Calls |-> None]
    /\ acquired = [c \in Calls |-> 0]
    /\ launched = [c \in Calls |-> 0]

(***************************************************************************)
(* Spec: the application.                                                  *)
(***************************************************************************)
Init ==
    /\ \E v \in Variants : StartIdle(v)
    /\ EscapeIdle
    /\ ResultIdle
    /\ CallsIdle

Next ==
    \/ Run
    \/ \E c \in Calls : Invoke(c)
    \/ \E c \in Calls : Metrics(c)
    \/ \E c \in Calls : Lock(c)
    \/ \E c \in Calls : SpawnFails(c)
    \/ \E c \in Calls : SpawnOk(c)
    \/ \E c \in Calls : Exit(c)

Spec == Init /\ [][Next]_vars

\* Every step of a pending call is eventually taken: the scheduler runs each
\* task, the Mutex is handed to each waiter, every backend process exits.
Fairness ==
    \A c \in Calls :
        /\ SF_vars(Lock(c))
        /\ WF_vars(SpawnFails(c) \/ SpawnOk(c))
        /\ WF_vars(Exit(c))

LiveSpec == Spec /\ Fairness

(***************************************************************************)
(* SpecDetect: detect_python_path on every machine.                        *)
(***************************************************************************)
InitDetect ==
    /\ \E v \in Variants :
          /\ variant = v
          /\ probeEnv \in ProbeEnvs(v)
          /\ probes = NoProbes(v)
    /\ started = FALSE
    /\ python_path = None
    /\ EscapeIdle
    /\ ResultIdle
    /\ CallsIdle

\* run() on the machine probeEnv
RunDetect ==
    /\ ~started
    /\ LET found == detect_python_path(candidates(variant), probeEnv)
       IN  /\ python_path' = found.path
           /\ probes' = found.probes
    /\ started' = TRUE
    /\ UNCHANGED <<variant, probeEnv, escapeVars, resultVars, callVars>>

SpecDetect == InitDetect /\ [][RunDetect]_vars

(***************************************************************************)
(* SpecEscape: send_chat_message builds the script, Python reads it.       *)
(***************************************************************************)
InitEscape ==
    /\ message \in SeqsUpTo(Alphabet, MaxMsgLen)
    /\ script = <<>>
    /\ parsed = NotParsed
    /\ StartIdle(Desktop)
    /\ ResultIdle
    /\ CallsIdle

BuildScript ==
    /\ script = <<>>
    /\ script' = send_message_script(message, <<"s", "1">>)
    /\ UNCHANGED <<message, parsed, startVars, resultVars, callVars>>

ReadLiteral ==
    /\ script # <<>>
    /\ parsed = NotParsed
    /\ parsed' = PyStringLiteral(script, 1, <<>>)
    /\ UNCHANGED <<message, script, startVars, resultVars, callVars>>

NextEscape == BuildScript \/ ReadLiteral

SpecEscape == InitEscape /\ [][NextEscape]_vars

(***************************************************************************)
(* SpecResult: one command, run after run, on every outcome of its launch. *)
(***************************************************************************)
InitResult ==
    /\ \E v \in Variants :
          /\ StartIdle(v)
          /\ cmdUnderTest \in BackendCommands(v)
    /\ runs = <<>>
    /\ EscapeIdle
    /\ CallsIdle

RunCommand ==
    /\ Len(runs) < MaxRuns
    /\ \E o \in Outcomes(cmdUnderTest) :
          runs' = Append(runs, [outcome |-> o, result |-> CommandResult(cmdUnderTest, o)])
    /\ UNCHANGED <<cmdUnderTest, escapeVars, startVars, callVars>>

SpecResult == InitResult /\ [][RunCommand]_vars

(***************************************************************************)
(* Properties.                                                             *)
(***************************************************************************)

\* C1 (SpecEscape).  Message-escaping round trip: the literal embedded for the
\* message, read back by the interpreter, is a well-formed literal, gives
\* exactly the message, and ends at the closing quote the template wrote
\* (neither earlier nor later).
C1_EscapeRoundTrip ==
    parsed # NotParsed =>
        /\ parsed.ok
        /\ parsed.text = message
        /\ parsed.end = Len(script) - Len(ScriptTail(<<"s", "1">>)) + 1

FirstSuccess(env) ==
    CHOOSE i \in DOMAIN env :
        /\ env[i] = "exit_zero"
        /\ \A j \in DOMAIN env : j < i => env[j] # "exit_zero"

\* C2 (SpecDetect).  Short-circuit resolution: when some candidate's probe
\* spawns and exits 0, the path stored is the first such candidate in list
\* order, it and every earlier candidate were probed exactly once, and no
\* later candidate was probed.
C2_ShortCircuit ==
    (started /\ \E i \in DOMAIN probeEnv : probeEnv[i] = "exit_zero") =>
        LET k == FirstSuccess(probeEnv)
        IN  /\ python_path = candidates(variant)[k]
            /\ \A i \in DOMAIN probes : probes[i] = IF i <= k THEN 1 ELSE 0

C2_Witness ==
    /\ started
    /\ probeEnv = <<"spawn_error", "exit_nonzero", "exit_zero", "exit_zero">>
    /\ python_path = candidates(variant)[3]

\* C3 (SpecDetect).  Fallback on exhaustion: detection can always be carried
\* out, and when no candidate's probe succeeds every candidate was probed
\* once and the path stored is "python3".
C3_FallbackDefault ==
    /\ ~started => ENABLED RunDetect
    /\ (started /\ \A i \in DOMAIN probeEnv : probeEnv[i] # "exit_zero") =>
          /\ python_path = "python3"
          /\ \A i \in DOMAIN probes : probes[i] = 1

C3_Witness ==
    /\ started
    /\ probeEnv = <<"spawn_error", "exit_nonzero", "spawn_error", "exit_nonzero">>
    /\ python_path = "python3"

Elements(s) == {s[i] : i \in 1..Len(s)}

\* s is white space, one object whose members are distinct and include every
\* required field of cmd's struct, white space.
WellFormed(cmd, s) ==
    \E a, b \in 1..Len(s) :
        /\ a < b
        /\ s[a] = LBRACE
        /\ s[b] = RBRACE
        /\ \A i \in 1..Len(s) : (i < a \/ i > b) => s[i] = NEWLINE
        /\ \A i \in (a + 1)..(b - 1) : IsMember(s[i])
        /\ \A i, j \in (a + 1)..(b - 1) : s[i] = s[j] => i = j
        /\ RequiredFields(cmd) \subseteq Elements(s)

\* s stops before the object is closed.
Truncated(cmd, s) == s \in Prefixes(FullObject(cmd)) /\ RBRACE \notin Elements(s)

\* The texts of serde_json's errors
DecodeErrors ==
    {"EOF while parsing a value", "EOF while parsing an object", "expected value",
     "key must be a string", "duplicate field", "missing field", "trailing characters"}

LacksRequired(cmd, s) == ~(RequiredFields(cmd) \subseteq Elements(s))

\* C4 (SpecResult).  Success only from a decodable zero-exit run: a JSON
\* command returns Ok only when the backend was spawned, exited 0 and its
\* whole stdout is one object with every required field, and the value holds
\* exactly the fields stdout gave (only Option fields may be None); an empty or
\* truncated stdout, or one lacking a required field, gives the parse error;
\* after a non-zero exit the result is the stderr error whatever stdout holds.
C4_SuccessOnlyDecodable ==
    \A i \in 1..Len(runs) :
        cmdUnderTest \in JsonCommands =>
            LET o == runs[i].outcome
                r == runs[i].result
            IN  /\ r.ok =>
                    /\ o.spawned
                    /\ o.status = 0
                    /\ WellFormed(cmdUnderTest, o.stdout)
                    /\ r.value.fields = Elements(o.stdout) \cap KnownFields(cmdUnderTest)
                    /\ r.value.defaulted = OptionalFields(cmdUnderTest) \ Elements(o.stdout)
                /\ ( /\ o.spawned
                     /\ o.status = 0
                     /\ \/ o.stdout = <<>>
                        \/ Truncated(cmdUnderTest, o.stdout)
                        \/ LacksRequired(cmdUnderTest, o.stdout) ) =>
                    /\ ~r.ok
                    /\ r.value = NoValue
                    /\ r.text \in DecodeErrors
                /\ (o.spawned /\ o.status # 0) =>
                    /\ ~r.ok
                    /\ r.value = NoValue
                    /\ r.text = o.stderr

C4_Witness ==
    /\ cmdUnderTest = GetChatHistory
    /\ Len(runs) = 2
    /\ runs[1].outcome = Exited(0, FullObject(GetChatHistory), "")
    /\ runs[1].result.ok
    /\ runs[2].outcome = Exited(0, SubSeq(FullObject(GetChatHistory), 1, 3), "")
    /\ ~runs[2].result.ok

\* The String an Err carries
ErrorValue(r) == <<r.prefix, r.text>>

\* C5 (SpecResult).  Distinct failure kinds: no run that failed at spawn and
\* run that exited non-zero return the same error value, and the error of a
\* non-zero exit carries the captured stderr.
C5_DistinctFailureKinds ==
    \A i, j \in 1..Len(runs) :
        ( /\ ~runs[i].outcome.spawned
          /\ runs[j].outcome.spawned
          /\ runs[j].outcome.status # 0 ) =>
            /\ ~runs[i].result.ok
            /\ ~runs[j].result.ok
            /\ runs[j].result.text = runs[j].outcome.stderr
            /\ ErrorValue(runs[i].result) # ErrorValue(runs[j].result)

\* C6 (SpecResult).  History without a chat interface: when the backend
\* prints the empty object and exits 0, get_chat_history returns Ok (a
\* ChatSession with no messages).
C6_EmptyHistory ==
    \A i \in 1..Len(runs) :
        ( /\ cmdUnderTest = GetChatHistory
          /\ runs[i].outcome = Exited(0, <<LBRACE, RBRACE, NEWLINE>>, "") ) =>
            /\ runs[i].result.ok
            /\ runs[i].result.value.kind = "struct"

\* C7 (SpecResult).  Non-empty session id: start_chat_session never returns
\* Ok with the empty string; a zero exit whose stdout is empty or white space
\* is an error, any other zero exit gives stdout without its leading and
\* trailing white space.
C7_NonEmptySessionId ==
    \A i \in 1..Len(runs) :
        cmdUnderTest = StartChatSession =>
            LET o == runs[i].outcome
                r == runs[i].result
                blank == \A k \in 1..Len(o.stdout) : IsSpace(o.stdout[k])
            IN  /\ r.ok => r.value.text # <<>>
                /\ (o.spawned /\ o.status = 0 /\ blank) => ~r.ok
                /\ (o.spawned /\ o.status = 0 /\ ~blank) =>
                      /\ r.ok
                      /\ ~IsSpace(Head(r.value.text))
                      /\ ~IsSpace(r.value.text[Len(r.value.text)])
                      /\ \E a, b \in 1..Len(o.stdout) :
                            r.value.text = SubSeq(o.stdout, a, b)

\* C8 (Spec).  Cached path is stable: once run() has stored the path, no step
\* changes it or probes a candidate again, and every backend process in
\* flight was launched with exactly that path.
C8_PathStable ==
    [][started =>
          /\ started'
          /\ python_path' = python_path
          /\ probes' = probes
          /\ \A c \in Calls : proc'[c] # NoProc => proc'[c].program = python_path]_vars

C8_Witness ==
    /\ started
    /\ python_path = candidates(variant)[3]
    /\ \E a, b \in Calls :
          /\ returned[a] = "decode failure"
          /\ pc[b] = "running"
          /\ proc[b].program = python_path

\* C9 (Spec).  Operations run concurrently: a call whose backend process is in
\* flight does not keep another pending call from taking the lock and
\* launching its own.
C9_ConcurrentLaunch ==
    \A a, b \in Calls :
        (a # b /\ pc[a] = "running" /\ pc[b] = "called") => ENABLED Lock(b)

\* What the code does instead: the guard lives until the command returns, so
\* at most one backend process is in flight and its call holds the lock.
OneBackendAtATime ==
    \A a, b \in Calls :
        (proc[a] # NoProc /\ proc[b] # NoProc) => (a = b /\ lock = a)

Pending(c) == pc[c] \in {"called", "locked", "running"}

====
